---- MODULE Spec2Model ----
(***************************************************************************)
(* Test-taking page of the quiz application: the TestTakingPage component  *)
(* (frontend/src/pages/TestTakingPage.jsx), the QuestionView answer        *)
(* handlers and the sessionService requests it awaits.                     *)
(*                                                                         *)
(* One step of the model is one task of the browser's event loop: a user   *)
(* event handler, an interval callback or the continuation of an awaited   *)
(* request, followed by the React re-render and the effects it triggers.    *)
(* A handler reads the state captured by the render that created it; the   *)
(* continuation after an await still reads that captured state.            *)
(***************************************************************************)
EXTENDS Integers, Sequences, FiniteSets, TLC

\* ---------------------------------------------------------------- bounds
MaxQuestions == 2      \* questions in the test returned by the backend
MaxTime == 2           \* largest time_remaining (seconds) the backend returns
MaxAnswerCalls == 2    \* handleAnswer calls in one run
MaxSubmitCalls == 1    \* clicks on the submit button that reach submitTest
MaxAuthCalls == 2      \* initialize and login calls of the auth store in one run
MaxOrderPending == 1   \* onAnswer payloads of the ordering question awaiting the parent
MaxMatchPending == 1   \* onAnswer payloads of the matching question awaiting the parent
MaxEditorOptions == 3  \* options a question may get in the editor
MaxCreatorOps == 3     \* save, delete and publish requests of the creator page in one run

\* ------------------------------------------------------------ JS values
\* JavaScript null for object-valued state (session, test).
Null == [null |-> TRUE]
\* JavaScript null for the numeric state timeRemaining / time_remaining.
NullTime == -1
\* useState({}) : an object without keys.
EmptyAnswers == [q \in {} |-> Null]

\* option ids of every question and the texts a student may type
OptionIds == {1, 2}
Texts == {"", "a"}

\* accounts that may log in and the fields a profile update may carry
Users == {1, 2}
UserData == {[name |-> "n"]}

VARIABLES
    page,                  \* route shown: "taking" (component mounted), "dashboard", "results"
    loadPc,                \* position of the async startTest function
    loading, session, test, currentQuestionIndex, answers, submitting, timeRemaining,
    timerOn,               \* an interval created by the timer effect is running
    timerClosure,          \* state captured by the render whose effect created the interval
    pendingAnswers,        \* submitAnswer requests in flight, each with the handler's closure
    submitInFlight,        \* submitTest requests in flight
    \* history of the run
    submitCalls,           \* submitTest requests issued
    submitFailures,        \* submitTest requests that failed
    submitAlerts,          \* 'Ошибка при отправке теста' alerts shown
    expiryCount,           \* handleTimeUp calls
    ticks,                 \* interval callbacks fired
    answerCalls,           \* handleAnswer calls
    lastCall,              \* question id -> payload of the latest handleAnswer call
    errorsLogged,          \* console.error calls of handleAnswer
    thrown,                \* a handler threw (TypeError on a null test)
    lastConfirm,           \* the confirm() dialog shown by the latest step and its reply, NoConfirm if none
    loadAlerts,            \* alerts shown by the catch block of startTest
    submitSuccesses,       \* submitTest requests that succeeded
    resultPc,              \* TestResultsPage: "none" (not mounted), "loading", "shown", "failed"
    \* useAuthStore
    user, isAuthenticated, isLoading,
    localStorage,          \* the stored items: key -> value
    authPending,           \* initialize and login calls waiting for a request
    authCalls,             \* initialize and login calls made
    \* OrderingQuestion
    items, draggedItem,
    orderingAnswer,        \* the answer prop
    orderingPending,       \* payloads passed to onAnswer that the parent has not yet saved
    \* MatchingQuestion
    matches, selectedLeft,
    matchingAnswer,        \* the answer prop
    matchingPending,       \* payloads passed to onAnswer that the parent has not yet saved
    \* QuestionEditor
    formData,
    onSavePayload,         \* the question the latest step passed to onSave, Null if none
    \* TestCreatorPage
    questions, editingQuestion, saving,
    creatorPending,        \* requests of the creator page in flight, each with its handler's questions
    publishCalls,          \* publishTest requests issued
    creatorOps,            \* save, delete and publish requests issued
    creatorPage            \* "creator" (mounted) or "tests" after navigate

taking == <<page, loadPc, loading, session, test, currentQuestionIndex, answers,
            submitting, timeRemaining, timerOn, timerClosure, pendingAnswers,
            submitInFlight, submitCalls, submitFailures, submitAlerts, expiryCount,
            ticks, answerCalls, lastCall, errorsLogged, thrown, lastConfirm,
            loadAlerts, submitSuccesses, resultPc>>

authVars == <<user, isAuthenticated, isLoading, localStorage, authPending, authCalls>>

orderingVars == <<items, draggedItem, orderingAnswer, orderingPending>>

matchingVars == <<matches, selectedLeft, matchingAnswer, matchingPending>>

editorVars == <<formData, onSavePayload>>

creatorVars == <<questions, editingQuestion, saving, creatorPending, publishCalls, creatorOps, creatorPage>>

vars == <<taking, authVars, orderingVars, matchingVars, editorVars, creatorVars>>

\* the variables a component leaves alone
notTaking == <<authVars, orderingVars, matchingVars, editorVars, creatorVars>>
notAuth == <<taking, orderingVars, matchingVars, editorVars, creatorVars>>
notOrdering == <<taking, authVars, matchingVars, editorVars, creatorVars>>
notMatching == <<taking, authVars, orderingVars, editorVars, creatorVars>>
notEditor == <<taking, authVars, orderingVars, matchingVars, creatorVars>>
notCreator == <<taking, authVars, orderingVars, matchingVars, editorVars>>

history == <<submitFailures, submitAlerts, expiryCount, ticks, answerCalls,
             lastCall, errorsLogged>>

\* what the results page and the load error path keep
aux == <<loadAlerts, submitSuccesses, resultPc>>

\* no confirm() dialog was shown
NoConfirm == [answered |-> -1, total |-> -1, reply |-> FALSE]

\* ------------------------------------------------------------- helpers
RemoveAt(s, i) == SubSeq(s, 1, i - 1) \o SubSeq(s, i + 1, Len(s))

Includes(s, x) == \E i \in DOMAIN s : s[i] = x

RECURSIVE Filter(_, _)
Filter(s, x) ==
    IF s = <<>> THEN <<>>
    ELSE IF Head(s) = x THEN Filter(Tail(s), x)
    ELSE <<Head(s)>> \o Filter(Tail(s), x)

\* { ...obj, [key]: value }
Spread(obj, key, value) ==
    [k \in DOMAIN obj \cup {key} |-> IF k = key THEN value ELSE obj[k]]

\* Object.keys(answers).length
ObjectKeysLength(obj) == Cardinality(DOMAIN obj)

\* question_type of the question with the given id in the served test
QuestionType(q) ==
    CASE q % 3 = 1 -> "multiple_select"
      [] q % 3 = 2 -> "text_input"
      [] OTHER     -> "multiple_choice"

\* the test object returned by getTestQuestions with n questions
TestData(n) == [questions |-> [i \in 1..n |-> i]]

\* ------------------------------------------------- QuestionView handlers
handleMultipleChoice(optionId) == [selected_option_id |-> optionId]

handleMultipleSelect(answer, optionId) ==
    LET currentIds == IF answer = Null THEN <<>> ELSE answer.selected_option_ids
        newIds == IF Includes(currentIds, optionId)
                  THEN Filter(currentIds, optionId)
                  ELSE Append(currentIds, optionId)
    IN [selected_option_ids |-> newIds]

handleTextInput(text) == [text |-> text]

\* answer={answers[currentQuestion.id]}
AnswerProp(q) == IF q \in DOMAIN answers THEN answers[q] ELSE Null

\* value={answer?.text || ''}
TextareaValue(answer) == IF answer = Null THEN "" ELSE answer.text

\* the payloads QuestionView can pass to onAnswer for question q
OnAnswerPayloads(q) ==
    CASE QuestionType(q) = "multiple_select" ->
            {handleMultipleSelect(AnswerProp(q), o) : o \in OptionIds}
      [] QuestionType(q) = "text_input" ->
            \* the textarea is controlled: onChange fires for a text other than the shown one
            {handleTextInput(t) : t \in Texts \ {TextareaValue(AnswerProp(q))}}
      [] OTHER ->
            {handleMultipleChoice(o) : o \in OptionIds}

\* --------------------------------------------------------------- render
\* the page shows the question view, the navigation and the submit button
Rendered == page = "taking" /\ ~loading /\ test # Null /\ session # Null

\* no interval is running: the render an interval captured goes with it
NoClosure == [answers |-> EmptyAnswers, test |-> Null]

\* ----------------------------------------------------------------- Init
TakingInit ==
    /\ page = "taking"
    /\ loadPc = "startTest"
    /\ loading = TRUE
    /\ session = Null
    /\ test = Null
    /\ currentQuestionIndex = 0
    /\ answers = EmptyAnswers
    /\ submitting = FALSE
    /\ timeRemaining = NullTime
    /\ timerOn = FALSE
    /\ timerClosure = NoClosure
    /\ pendingAnswers = <<>>
    /\ submitInFlight = 0
    /\ submitCalls = 0
    /\ submitFailures = 0
    /\ submitAlerts = 0
    /\ expiryCount = 0
    /\ ticks = 0
    /\ answerCalls = 0
    /\ lastCall = EmptyAnswers
    /\ errorsLogged = 0
    /\ thrown = FALSE
    /\ lastConfirm = NoConfirm
    /\ loadAlerts = 0
    /\ submitSuccesses = 0
    /\ resultPc = "none"

\* ---------------------------------------------------- auth store values
\* localStorage without the two token items
NoTokens == [k \in {} |-> 0]

\* localStorage.setItem(key, value)
setItem(ls, key, value) ==
    [k \in DOMAIN ls \cup {key} |-> IF k = key THEN value ELSE ls[k]]

\* localStorage.removeItem(key)
removeItem(ls, key) == [k \in DOMAIN ls \ {key} |-> ls[k]]

\* authService.login after its POST resolved: both tokens are stored
authService_login(ls, u) ==
    setItem(setItem(ls, "access_token", u), "refresh_token", u)

\* authService.logout that forgets the refresh token
authService_logout_KeepsRefresh(ls) == removeItem(ls, "access_token")

\* authService.logout: both tokens are removed
authService_logout(ls) == removeItem(removeItem(ls, "access_token"), "refresh_token")

\* authService.isAuthenticated: !!localStorage.getItem('access_token')
authService_isAuthenticated(ls) == "access_token" \in DOMAIN ls

\* { ...state.user, ...userData }: spreading null contributes no key
SpreadUser(u, userData) ==
    IF u = Null THEN userData
    ELSE [k \in DOMAIN u \cup DOMAIN userData |->
            IF k \in DOMAIN userData THEN userData[k] ELSE u[k]]

\* the user object returned by GET /api/auth/me
UserOf(u) == [id |-> u]

\* the store as create() builds it, with ls in localStorage
AuthStore(ls) ==
    /\ user = Null
    /\ isAuthenticated = FALSE
    /\ isLoading = TRUE
    /\ localStorage = ls
    /\ authPending = <<>>
    /\ authCalls = 0

\* the application starts with or without the tokens of an earlier visit
AuthInit ==
    \E ls \in {NoTokens} \cup {authService_login(NoTokens, u) : u \in Users} : AuthStore(ls)

\* ------------------------------------------------- OrderingQuestion values
\* draggedItem = null
NullIdx == -1

\* question.options, each option standing for its id
OrderingOptions == <<1, 2, 3>>

\* every order [...question.options].sort(() => Math.random() - 0.5) may produce
Shuffles ==
    {s \in [DOMAIN OrderingOptions -> {OrderingOptions[i] : i \in DOMAIN OrderingOptions}] :
        \A i, j \in DOMAIN s : i # j => s[i] # s[j]}

\* newItems.splice(index, 0, x), index counted from 0
InsertAt(s, index, x) == SubSeq(s, 1, index) \o <<x>> \o SubSeq(s, index + 1, Len(s))

\* answer.order.map(id => question.options.find(opt => opt.id === id)).filter(Boolean)
RestoreOrder(order) ==
    SelectSeq(order, LAMBDA id : \E i \in DOMAIN OrderingOptions : OrderingOptions[i] = id)

\* the effect on [question, answer]: restore the answered order, or shuffle
OrderingEffect(a, shuffled) == IF a # Null THEN RestoreOrder(a.order) ELSE shuffled

\* the component after mounting without an answer, its items shuffled
OrderingMounted(shuffled) ==
    /\ items = OrderingEffect(Null, shuffled)
    /\ draggedItem = NullIdx
    /\ orderingAnswer = Null
    /\ orderingPending = <<>>

OrderingInit == \E shuffled \in Shuffles : OrderingMounted(shuffled)

\* ------------------------------------------------- MatchingQuestion values
\* match_id of the options of the left and of the right column
LeftIds == {"left_1", "left_2"}
RightIds == {"right_1", "right_2"}
\* selectedLeft = null
NoLeft == "null"
\* useState({}) : no pair matched
NoMatches == [k \in {} |-> ""]

\* the component after mounting without an answer
MatchingInit ==
    /\ matches = NoMatches
    /\ selectedLeft = NoLeft
    /\ matchingAnswer = Null
    /\ matchingPending = <<>>

\* --------------------------------------------------- QuestionEditor values
\* question types of the editor's select; text_input stands for the types without options
QuestionTypes == {"multiple_choice", "multiple_select", "true_false", "text_input"}
\* texts an author may type: empty, blank, non-blank
EditorTexts == {"", " ", "q"}

\* String.prototype.trim on these texts
Trim(t) == IF t = " " THEN "" ELSE t

\* the options initializeOptions(type) puts into the form (the two true_false
\* labels are transliterated)
initializeOptions(type) ==
    IF type = "multiple_choice" \/ type = "multiple_select"
    THEN <<[option_text |-> "", is_correct |-> FALSE],
           [option_text |-> "", is_correct |-> FALSE]>>
    ELSE IF type = "true_false"
         THEN <<[option_text |-> "Pravda", is_correct |-> FALSE],
                [option_text |-> "Lozh", is_correct |-> FALSE]>>
         ELSE <<>>

\* the editor opened by handleAddQuestion: a new multiple_choice question
\* without options, for which the effect calls initializeOptions
EditorInit ==
    /\ formData = [question_type |-> "multiple_choice", question_text |-> "",
                   options |-> initializeOptions("multiple_choice")]
    /\ onSavePayload = Null

\* -------------------------------------------------- TestCreatorPage values
\* editingQuestion = null
NoQuestion == -1
\* editingQuestion of handleAddQuestion: a question without id
NewQuestion == 0

\* the questions step of an existing test whose loaded questions have the ids qs
CreatorLoaded(qs) ==
    /\ questions = qs
    /\ editingQuestion = NoQuestion
    /\ saving = FALSE
    /\ creatorPending = <<>>
    /\ publishCalls = 0
    /\ creatorOps = 0
    /\ creatorPage = "creator"

\* loadTest returned a test without questions, with one or with two
CreatorInit == \E qs \in {<<>>, <<1>>, <<1, 2>>} : CreatorLoaded(qs)

Init == TakingInit /\ AuthStore(NoTokens) /\ OrderingMounted(OrderingOptions) /\ MatchingInit /\ EditorInit /\ CreatorLoaded(<<>>)

\* ------------------------------------------------------------ startTest
\* the session effect starting a one-second countdown when time_remaining is null
SessionEffect_NullAsTimed(s, tr) ==
    IF s # Null
    THEN (IF s.time_remaining = NullTime \/ s.time_remaining = 0
          THEN 1 ELSE s.time_remaining)
    ELSE tr

\* the session effect: if (session && session.time_remaining) setTimeRemaining(...)
SessionEffect(s, tr) ==
    IF s # Null /\ s.time_remaining # NullTime /\ s.time_remaining # 0
    THEN s.time_remaining
    ELSE tr

\* the timer effect without its "timeRemaining <= 0" test
TimerEffectRuns_NoZeroTest(tr) == tr # NullTime

\* the timer effect creates an interval unless timeRemaining is null or <= 0
TimerEffectRuns(tr) == ~(tr = NullTime \/ tr <= 0)

\* sessionService.startTest resolved with time_remaining = tr
StartTestResolve(tr) ==
    /\ page = "taking"
    /\ loadPc = "startTest"
    /\ session' = [id |-> 1, time_remaining |-> tr]
    /\ timeRemaining' = SessionEffect(session', timeRemaining)
    /\ timerOn' = TimerEffectRuns(timeRemaining')
    /\ timerClosure' = IF timerOn' THEN [answers |-> answers, test |-> test]
                       ELSE NoClosure
    /\ loadPc' = "getTestQuestions"
    /\ UNCHANGED <<page, loading, test, currentQuestionIndex, answers, submitting,
                   pendingAnswers, submitInFlight, submitCalls, thrown>>
    /\ UNCHANGED history
    /\ lastConfirm' = NoConfirm
    /\ UNCHANGED aux
    /\ UNCHANGED notTaking

\* the catch block of startTest without its navigate('/dashboard')
LoadReject_NoNavigate ==
    /\ page = "taking"
    /\ loadPc \in {"startTest", "getTestQuestions"}
    /\ loadPc' = "failed"
    /\ loading' = FALSE
    /\ UNCHANGED <<page, timerOn, session, test, currentQuestionIndex, answers,
                   submitting, timeRemaining, timerClosure, pendingAnswers,
                   submitInFlight, submitCalls, thrown>>
    /\ UNCHANGED history
    /\ loadAlerts' = loadAlerts + 1
    /\ lastConfirm' = NoConfirm
    /\ UNCHANGED <<submitSuccesses, resultPc>>
    /\ UNCHANGED notTaking

\* startTest or getTestQuestions rejected: alert, navigate('/dashboard'), setLoading(false)
LoadReject ==
    /\ page = "taking"
    /\ loadPc \in {"startTest", "getTestQuestions"}
    /\ page' = "dashboard"
    /\ loadPc' = "failed"
    /\ loading' = FALSE
    /\ timerOn' = FALSE
    /\ timerClosure' = NoClosure
    /\ UNCHANGED <<session, test, currentQuestionIndex, answers, submitting,
                   timeRemaining, pendingAnswers, submitInFlight,
                   submitCalls, thrown>>
    /\ UNCHANGED history
    /\ loadAlerts' = loadAlerts + 1
    /\ lastConfirm' = NoConfirm
    /\ UNCHANGED <<submitSuccesses, resultPc>>
    /\ UNCHANGED notTaking

\* sessionService.getTestQuestions resolved with a test of n questions
GetTestQuestionsResolve(n) ==
    /\ page = "taking"
    /\ loadPc = "getTestQuestions"
    /\ test' = TestData(n)
    /\ loading' = FALSE
    /\ loadPc' = "done"
    /\ UNCHANGED <<page, session, currentQuestionIndex, answers, submitting,
                   timeRemaining, timerOn, timerClosure, pendingAnswers,
                   submitInFlight, submitCalls, thrown>>
    /\ UNCHANGED history
    /\ lastConfirm' = NoConfirm
    /\ UNCHANGED aux
    /\ UNCHANGED notTaking

\* --------------------------------------------------------- handleAnswer
\* the request body of sessionService.submitAnswer
submitAnswerBody(questionId, answerData) ==
    [question_id |-> questionId, answer_data |-> answerData]

\* onAnswer of the current question: the request is sent, the handler awaits it
handleAnswer(answerData) ==
    LET questionId == test.questions[currentQuestionIndex + 1] IN
    /\ pendingAnswers' = Append(pendingAnswers,
           [questionId |-> questionId, answerData |-> answerData, answers |-> answers,
            body |-> submitAnswerBody(questionId, answerData),
            requests |-> 1])
    /\ answerCalls' = answerCalls + 1
    /\ lastCall' = Spread(lastCall, questionId, answerData)
    /\ UNCHANGED <<page, loadPc, loading, session, test, currentQuestionIndex, answers,
                   submitting, timeRemaining, timerOn, timerClosure, submitInFlight,
                   submitCalls, submitFailures, submitAlerts, expiryCount, ticks,
                   errorsLogged, thrown>>
    /\ lastConfirm' = NoConfirm
    /\ UNCHANGED aux

AnswerClick ==
    /\ Rendered
    /\ answerCalls < MaxAnswerCalls
    /\ \E answerData \in OnAnswerPayloads(test.questions[currentQuestionIndex + 1]) :
           handleAnswer(answerData)
    /\ UNCHANGED notTaking

\* handleAnswer moving on to the next question once the answer is saved
SubmitAnswerResolve_AutoAdvance(i) ==
    LET r == pendingAnswers[i] IN
    /\ pendingAnswers' = RemoveAt(pendingAnswers, i)
    /\ answers' = IF page = "taking"
                  THEN Spread(r.answers, r.questionId, r.answerData)
                  ELSE answers
    /\ currentQuestionIndex' =
           IF page = "taking" /\ currentQuestionIndex < Len(test.questions) - 1
           THEN currentQuestionIndex + 1
           ELSE currentQuestionIndex
    /\ UNCHANGED <<page, loadPc, loading, session, test,
                   submitting, timeRemaining, timerOn, timerClosure, submitInFlight,
                   submitCalls, thrown>>
    /\ UNCHANGED history
    /\ lastConfirm' = NoConfirm
    /\ UNCHANGED aux
    /\ UNCHANGED notTaking

\* submitAnswer resolved: setAnswers({ ...answers, [questionId]: answerData })
\* with the answers object the handler captured when it was called
SubmitAnswerResolve(i) ==
    LET r == pendingAnswers[i] IN
    /\ pendingAnswers' = RemoveAt(pendingAnswers, i)
    /\ answers' = IF page = "taking"
                  THEN Spread(r.answers, r.questionId, r.answerData)
                  ELSE answers
    /\ UNCHANGED <<page, loadPc, loading, session, test, currentQuestionIndex,
                   submitting, timeRemaining, timerOn, timerClosure, submitInFlight,
                   submitCalls, thrown>>
    /\ UNCHANGED history
    /\ lastConfirm' = NoConfirm
    /\ UNCHANGED aux
    /\ UNCHANGED notTaking

\* submitAnswer rejected: console.error only
SubmitAnswerReject(i) ==
    /\ pendingAnswers' = RemoveAt(pendingAnswers, i)
    /\ errorsLogged' = errorsLogged + 1
    /\ UNCHANGED <<page, loadPc, loading, session, test, currentQuestionIndex, answers,
                   submitting, timeRemaining, timerOn, timerClosure, submitInFlight,
                   submitCalls, submitFailures, submitAlerts, expiryCount, ticks,
                   answerCalls, lastCall, thrown>>
    /\ lastConfirm' = NoConfirm
    /\ UNCHANGED aux
    /\ UNCHANGED notTaking

\* ----------------------------------------------------------- navigation
\* handleNext without its "currentQuestionIndex < length - 1" test
handleNext_Unclamped ==
    /\ Rendered
    /\ currentQuestionIndex' = currentQuestionIndex + 1
    /\ UNCHANGED <<page, loadPc, loading, session, test, answers, submitting,
                   timeRemaining, timerOn, timerClosure, pendingAnswers,
                   submitInFlight, submitCalls, thrown>>
    /\ UNCHANGED history
    /\ lastConfirm' = NoConfirm
    /\ UNCHANGED aux
    /\ UNCHANGED notTaking

\* handleNext waiting for the pending answers to be saved
handleNext_BlocksOnPending ==
    /\ Rendered
    /\ pendingAnswers = <<>>
    /\ currentQuestionIndex' =
           IF currentQuestionIndex < Len(test.questions) - 1
           THEN currentQuestionIndex + 1
           ELSE currentQuestionIndex
    /\ UNCHANGED <<page, loadPc, loading, session, test, answers, submitting,
                   timeRemaining, timerOn, timerClosure, pendingAnswers,
                   submitInFlight, submitCalls, thrown>>
    /\ UNCHANGED history
    /\ lastConfirm' = NoConfirm
    /\ UNCHANGED aux
    /\ UNCHANGED notTaking

handleNext ==
    /\ Rendered
    /\ currentQuestionIndex' =
           IF currentQuestionIndex < Len(test.questions) - 1
           THEN currentQuestionIndex + 1
           ELSE currentQuestionIndex
    /\ UNCHANGED <<page, loadPc, loading, session, test, answers, submitting,
                   timeRemaining, timerOn, timerClosure, pendingAnswers,
                   submitInFlight, submitCalls, thrown>>
    /\ UNCHANGED history
    /\ lastConfirm' = NoConfirm
    /\ UNCHANGED aux
    /\ UNCHANGED notTaking

handlePrevious ==
    /\ Rendered
    /\ currentQuestionIndex' =
           IF currentQuestionIndex > 0
           THEN currentQuestionIndex - 1
           ELSE currentQuestionIndex
    /\ UNCHANGED <<page, loadPc, loading, session, test, answers, submitting,
                   timeRemaining, timerOn, timerClosure, pendingAnswers,
                   submitInFlight, submitCalls, thrown>>
    /\ UNCHANGED history
    /\ lastConfirm' = NoConfirm
    /\ UNCHANGED aux
    /\ UNCHANGED notTaking

\* --------------------------------------------------------- handleSubmit
\* handleSubmit without its confirmation step
handleSubmit_NoConfirm(closureAnswers, closureTest, confirmed) ==
    IF closureTest = Null
    THEN /\ thrown' = TRUE
         /\ lastConfirm' = NoConfirm
         /\ UNCHANGED <<submitting, submitInFlight, submitCalls>>
    ELSE /\ lastConfirm' = NoConfirm
         /\ submitting' = TRUE
         /\ submitInFlight' = submitInFlight + 1
         /\ submitCalls' = submitCalls + 1
         /\ UNCHANGED thrown

\* handleSubmit up to its await, run with the answers and test of the
\* render that created the handler; confirmed is the user's reply to confirm()
handleSubmit(closureAnswers, closureTest, confirmed) ==
    IF closureTest = Null
    THEN \* test.questions throws a TypeError
         /\ thrown' = TRUE
         /\ lastConfirm' = NoConfirm
         /\ UNCHANGED <<submitting, submitInFlight, submitCalls>>
    ELSE LET answeredCount == ObjectKeysLength(closureAnswers)
             totalQuestions == Len(closureTest.questions)
         IN /\ lastConfirm' = IF answeredCount < totalQuestions
                              THEN [answered |-> answeredCount, total |-> totalQuestions,
                                    reply |-> confirmed]
                              ELSE NoConfirm
            /\ IF answeredCount < totalQuestions /\ ~confirmed
               THEN UNCHANGED <<submitting, submitInFlight, submitCalls, thrown>>
               ELSE /\ submitting' = TRUE
                    /\ submitInFlight' = submitInFlight + 1
                    /\ submitCalls' = submitCalls + 1
                    /\ UNCHANGED thrown

\* a submit button shown on every question
SubmitClick_AnyQuestion ==
    /\ Rendered
    /\ ~submitting
    /\ submitCalls < MaxSubmitCalls
    /\ \E confirmed \in BOOLEAN : handleSubmit(answers, test, confirmed)
    /\ UNCHANGED <<page, loadPc, loading, session, test, currentQuestionIndex, answers,
                   timeRemaining, timerOn, timerClosure, pendingAnswers>>
    /\ UNCHANGED history
    /\ UNCHANGED aux
    /\ UNCHANGED notTaking

\* click on the submit button: shown on the last question, disabled while submitting
SubmitClick ==
    /\ Rendered
    /\ ~(currentQuestionIndex < Len(test.questions) - 1)
    /\ ~submitting
    /\ submitCalls < MaxSubmitCalls
    /\ \E confirmed \in BOOLEAN : handleSubmit(answers, test, confirmed)
    /\ UNCHANGED <<page, loadPc, loading, session, test, currentQuestionIndex, answers,
                   timeRemaining, timerOn, timerClosure, pendingAnswers>>
    /\ UNCHANGED history
    /\ UNCHANGED aux
    /\ UNCHANGED notTaking

\* submitTest resolved: navigate to the results page, setSubmitting(false)
SubmitTestResolve ==
    /\ submitInFlight > 0
    /\ submitInFlight' = submitInFlight - 1
    /\ page' = "results"
    /\ submitting' = IF page = "taking" THEN FALSE ELSE submitting
    /\ timerOn' = FALSE
    /\ timerClosure' = NoClosure
    /\ UNCHANGED <<loadPc, loading, session, test, currentQuestionIndex, answers,
                   timeRemaining, pendingAnswers, submitCalls, thrown>>
    /\ UNCHANGED history
    /\ submitSuccesses' = submitSuccesses + 1
    \* the results route mounts TestResultsPage, whose effect calls loadResults
    /\ resultPc' = IF page = "results" THEN resultPc ELSE "loading"
    /\ lastConfirm' = NoConfirm
    /\ UNCHANGED loadAlerts
    /\ UNCHANGED notTaking

\* handleSubmit with navigate() moved into the finally block
SubmitTestReject_Navigates ==
    /\ submitInFlight > 0
    /\ submitInFlight' = submitInFlight - 1
    /\ submitFailures' = submitFailures + 1
    /\ submitAlerts' = submitAlerts + 1
    /\ submitting' = IF page = "taking" THEN FALSE ELSE submitting
    /\ page' = "results"
    /\ timerOn' = FALSE
    /\ timerClosure' = NoClosure
    /\ resultPc' = IF page = "results" THEN resultPc ELSE "loading"
    /\ UNCHANGED <<loadPc, loading, session, test, currentQuestionIndex, answers,
                   timeRemaining, pendingAnswers, submitCalls,
                   expiryCount, ticks, answerCalls, lastCall, errorsLogged, thrown,
                   loadAlerts, submitSuccesses>>
    /\ lastConfirm' = NoConfirm
    /\ UNCHANGED notTaking

\* handleSubmit without its finally block: the flag stays set after a failure
SubmitTestReject_KeepsSubmitting ==
    /\ submitInFlight > 0
    /\ submitInFlight' = submitInFlight - 1
    /\ submitFailures' = submitFailures + 1
    /\ submitAlerts' = submitAlerts + 1
    /\ UNCHANGED <<page, loadPc, loading, session, test, currentQuestionIndex, answers,
                   submitting, timeRemaining, timerOn, timerClosure, pendingAnswers,
                   submitCalls, expiryCount, ticks, answerCalls, lastCall, errorsLogged,
                   thrown>>
    /\ lastConfirm' = NoConfirm
    /\ UNCHANGED aux
    /\ UNCHANGED notTaking

\* submitTest rejected: alert, setSubmitting(false)
SubmitTestReject ==
    /\ submitInFlight > 0
    /\ submitInFlight' = submitInFlight - 1
    /\ submitFailures' = submitFailures + 1
    /\ submitAlerts' = submitAlerts + 1
    /\ submitting' = IF page = "taking" THEN FALSE ELSE submitting
    /\ UNCHANGED <<page, loadPc, loading, session, test, currentQuestionIndex, answers,
                   timeRemaining, timerOn, timerClosure, pendingAnswers, submitCalls,
                   expiryCount, ticks, answerCalls, lastCall, errorsLogged, thrown>>
    /\ lastConfirm' = NoConfirm
    /\ UNCHANGED aux
    /\ UNCHANGED notTaking

\* --------------------------------------------------------- results page
\* TestResultsPage.loadResults: getResult resolved, the result is shown
GetResultResolve ==
    /\ page = "results"
    /\ resultPc = "loading"
    /\ resultPc' = "shown"
    /\ UNCHANGED <<page, loadPc, loading, session, test, currentQuestionIndex, answers,
                   submitting, timeRemaining, timerOn, timerClosure, pendingAnswers,
                   submitInFlight, submitCalls, thrown, loadAlerts, submitSuccesses>>
    /\ lastConfirm' = NoConfirm
    /\ UNCHANGED history
    /\ UNCHANGED notTaking

\* getResult rejected: alert, navigate('/dashboard')
GetResultReject ==
    /\ page = "results"
    /\ resultPc = "loading"
    /\ resultPc' = "failed"
    /\ page' = "dashboard"
    /\ UNCHANGED <<loadPc, loading, session, test, currentQuestionIndex, answers,
                   submitting, timeRemaining, timerOn, timerClosure, pendingAnswers,
                   submitInFlight, submitCalls, thrown, loadAlerts, submitSuccesses>>
    /\ lastConfirm' = NoConfirm
    /\ UNCHANGED history
    /\ UNCHANGED notTaking

\* ---------------------------------------------------------------- timer
\* handleTimeUp: alert, then handleSubmit of the render that created the interval
handleTimeUp(confirmed) ==
    /\ expiryCount' = expiryCount + 1
    /\ handleSubmit(timerClosure.answers, timerClosure.test, confirmed)

\* the interval callback: setTimeRemaining(prev => ...), then the re-render
\* clears the interval and the timer effect runs again for the new value
TimerTick ==
    /\ page = "taking"
    /\ timerOn
    /\ ticks' = ticks + 1
    /\ IF timeRemaining <= 1
       THEN /\ \E confirmed \in BOOLEAN : handleTimeUp(confirmed)
            /\ timeRemaining' = 0
       ELSE /\ timeRemaining' = timeRemaining - 1
            /\ UNCHANGED <<expiryCount, submitting, submitInFlight, submitCalls, thrown>>
            /\ lastConfirm' = NoConfirm
    /\ timerOn' = TimerEffectRuns(timeRemaining')
    /\ timerClosure' = IF timerOn' THEN [answers |-> answers, test |-> test]
                       ELSE NoClosure
    /\ UNCHANGED <<page, loadPc, loading, session, test, currentQuestionIndex, answers,
                   pendingAnswers, submitFailures, submitAlerts, answerCalls, lastCall,
                   errorsLogged>>
    /\ UNCHANGED aux
    /\ UNCHANGED notTaking

\* ----------------------------------------------------------------- Next
Next ==
    \/ \E tr \in {NullTime} \cup (0..MaxTime) : StartTestResolve(tr)
    \/ LoadReject
    \/ \E n \in 1..MaxQuestions : GetTestQuestionsResolve(n)
    \/ AnswerClick
    \/ \E i \in DOMAIN pendingAnswers : SubmitAnswerResolve(i)
    \/ \E i \in DOMAIN pendingAnswers : SubmitAnswerReject(i)
    \/ handleNext
    \/ handlePrevious
    \/ SubmitClick
    \/ SubmitTestResolve
    \/ SubmitTestReject
    \/ GetResultResolve
    \/ GetResultReject
    \/ TimerTick

Spec == Init /\ [][Next]_vars

\* a pending request is eventually answered, one way or the other
NetworkStep ==
    \/ \E tr \in {NullTime} \cup (0..MaxTime) : StartTestResolve(tr)
    \/ LoadReject
    \/ \E n \in 1..MaxQuestions : GetTestQuestionsResolve(n)
    \/ \E i \in DOMAIN pendingAnswers : SubmitAnswerResolve(i)
    \/ \E i \in DOMAIN pendingAnswers : SubmitAnswerReject(i)
    \/ SubmitTestResolve
    \/ SubmitTestReject
    \/ GetResultResolve
    \/ GetResultReject

\* the browser fires the callback of a running interval and delivers the
\* outcome of every request; the student may stay idle
FairSpec == Spec /\ WF_vars(TimerTick) /\ WF_vars(NetworkStep)

\* ================================================================ auth store
\* useAuthStore (store/authStore) and authService. One step is one synchronous
\* store action or the continuation of one awaited request.

\* initialize up to its await
initialize ==
    /\ authCalls < MaxAuthCalls
    /\ authCalls' = authCalls + 1
    /\ IF authService_isAuthenticated(localStorage)
       THEN /\ isLoading' = TRUE
            /\ authPending' = Append(authPending, [op |-> "initialize", pc |-> "getCurrentUser",
                                                   u |-> localStorage["access_token"]])
       ELSE /\ isLoading' = FALSE
            /\ UNCHANGED authPending
    /\ UNCHANGED <<user, isAuthenticated, localStorage>>
    /\ UNCHANGED notAuth

\* initialize: getCurrentUser resolved
InitializeResolve(i) ==
    /\ authPending[i].op = "initialize"
    /\ user' = UserOf(authPending[i].u)
    /\ isAuthenticated' = TRUE
    /\ isLoading' = FALSE
    /\ authPending' = RemoveAt(authPending, i)
    /\ UNCHANGED <<localStorage, authCalls>>
    /\ UNCHANGED notAuth

\* initialize whose catch block leaves the loading flag set
InitializeReject_StaysLoading(i) ==
    /\ authPending[i].op = "initialize"
    /\ user' = Null
    /\ isAuthenticated' = FALSE
    /\ localStorage' = authService_logout(localStorage)
    /\ authPending' = RemoveAt(authPending, i)
    /\ UNCHANGED <<isLoading, authCalls>>
    /\ UNCHANGED notAuth

\* initialize: getCurrentUser rejected, the catch block clears the store and the tokens
InitializeReject(i) ==
    /\ authPending[i].op = "initialize"
    /\ user' = Null
    /\ isAuthenticated' = FALSE
    /\ isLoading' = FALSE
    /\ localStorage' = authService_logout(localStorage)
    /\ authPending' = RemoveAt(authPending, i)
    /\ UNCHANGED authCalls
    /\ UNCHANGED notAuth

\* login up to its first await: POST /api/auth/login is sent
login(u) ==
    /\ authCalls < MaxAuthCalls
    /\ authCalls' = authCalls + 1
    /\ authPending' = Append(authPending, [op |-> "login", pc |-> "login", u |-> u])
    /\ UNCHANGED <<user, isAuthenticated, isLoading, localStorage>>
    /\ UNCHANGED notAuth

\* authService.login: the POST resolved, the tokens are stored, getCurrentUser is sent
LoginPostResolve(i) ==
    /\ authPending[i].op = "login"
    /\ authPending[i].pc = "login"
    /\ localStorage' = authService_login(localStorage, authPending[i].u)
    /\ authPending' = [authPending EXCEPT ![i].pc = "getCurrentUser"]
    /\ UNCHANGED <<user, isAuthenticated, isLoading, authCalls>>
    /\ UNCHANGED notAuth

\* login: one of its two requests rejected, the error goes to the caller
LoginReject(i) ==
    /\ authPending[i].op = "login"
    /\ authPending' = RemoveAt(authPending, i)
    /\ UNCHANGED <<user, isAuthenticated, isLoading, localStorage, authCalls>>
    /\ UNCHANGED notAuth

\* login: getCurrentUser resolved
LoginUserResolve(i) ==
    /\ authPending[i].op = "login"
    /\ authPending[i].pc = "getCurrentUser"
    /\ user' = UserOf(authPending[i].u)
    /\ isAuthenticated' = TRUE
    /\ authPending' = RemoveAt(authPending, i)
    /\ UNCHANGED <<isLoading, localStorage, authCalls>>
    /\ UNCHANGED notAuth

\* logout: authService.logout(), then set({ user: null, isAuthenticated: false })
logout ==
    /\ localStorage' = authService_logout(localStorage)
    /\ user' = Null
    /\ isAuthenticated' = FALSE
    /\ UNCHANGED <<isLoading, authPending, authCalls>>
    /\ UNCHANGED notAuth

\* updateUser(userData)
updateUser(userData) ==
    /\ user' = SpreadUser(user, userData)
    /\ UNCHANGED <<isAuthenticated, isLoading, localStorage, authPending, authCalls>>
    /\ UNCHANGED notAuth

AuthNext ==
    \/ initialize
    \/ \E i \in DOMAIN authPending : InitializeResolve(i)
    \/ \E i \in DOMAIN authPending : InitializeReject(i)
    \/ \E u \in Users : login(u)
    \/ \E i \in DOMAIN authPending : LoginPostResolve(i)
    \/ \E i \in DOMAIN authPending : LoginReject(i)
    \/ \E i \in DOMAIN authPending : LoginUserResolve(i)
    \/ logout
    \/ \E userData \in UserData : updateUser(userData)

\* the application with its auth store about to be initialized
AuthSpecInit == TakingInit /\ AuthInit /\ OrderingMounted(OrderingOptions) /\ MatchingInit /\ EditorInit /\ CreatorLoaded(<<>>)

AuthSpec == AuthSpecInit /\ [][AuthNext]_vars

\* every pending request of the store is eventually answered
AuthNetworkStep ==
    \/ \E i \in DOMAIN authPending : InitializeResolve(i)
    \/ \E i \in DOMAIN authPending : InitializeReject(i)
    \/ \E i \in DOMAIN authPending : LoginPostResolve(i)
    \/ \E i \in DOMAIN authPending : LoginReject(i)
    \/ \E i \in DOMAIN authPending : LoginUserResolve(i)

AuthFairSpec == AuthSpec /\ WF_vars(AuthNetworkStep)

\* =====================================================================
\* Properties of the test-taking page
\* =====================================================================

\* the attempt is active: the question view is shown and no submit is under way
Active == Rendered /\ ~submitting /\ submitInFlight = 0

\* answered={answeredCount}
answeredCount == ObjectKeysLength(answers)

\* a payload that carries an answer: some option selected, some text typed
NonEmptyPayload(p) ==
    CASE "selected_option_ids" \in DOMAIN p -> p.selected_option_ids # <<>>
      [] "text" \in DOMAIN p -> p.text # ""
      [] OTHER -> TRUE

\* C1: once a submitTest call is in flight or the attempt has been finalized,
\* no further submit, manual or forced by an expiry, issues another submitTest.
C1_SubmitAtMostOnce ==
    [][(submitInFlight > 0 \/ page = "results") => submitCalls' = submitCalls]_vars

\* C2: when the timer expires while the attempt is active, the attempt moves to
\* submitting and submitTest is called, whatever the student does.
C2_ExpiryForcesSubmit ==
    [][(expiryCount' > expiryCount /\ Active)
          => (submitting' /\ submitCalls' = submitCalls + 1)]_vars

\* C3: a timer started with time_remaining = n >= 1 fires handleTimeUp exactly
\* once, at the n-th tick and not before; from then on timeRemaining is 0, no
\* interval is running and no tick or expiry follows.
C3_ExpiryExactlyOnce ==
    (session # Null /\ session.time_remaining >= 1) =>
        LET n == session.time_remaining IN
        /\ ticks <= n
        /\ ticks < n => (expiryCount = 0 /\ timeRemaining = n - ticks)
        /\ ticks = n => (expiryCount = 1 /\ timeRemaining = 0 /\ ~timerOn)

C3_Witness ==
    /\ session # Null
    /\ session.time_remaining = MaxTime
    /\ ticks = MaxTime
    /\ expiryCount = 1

\* C4: submitTest is never issued while a submitAnswer request is in flight.
C4_SubmitAwaitsPersists ==
    [][submitCalls' > submitCalls => Len(pendingAnswers) = 0]_vars

\* C5: once every persist has completed successfully, the cache holds for each
\* question the payload of its most recent answer call, and no answer is lost.
C5_LastWriteWins ==
    (page = "taking" /\ pendingAnswers = <<>> /\ errorsLogged = 0)
        => answers = lastCall

\* C6: when the persist of answer(q, p) fails, the cache still holds p for q
\* and the attempt stays as it was.
C6_FailedPersistKeepsAnswer ==
    [][\A i \in DOMAIN pendingAnswers :
          (/\ SubmitAnswerReject(i)
           /\ page = "taking"
           /\ lastCall[pendingAnswers[i].questionId] = pendingAnswers[i].answerData)
          => (/\ pendingAnswers[i].questionId \in DOMAIN answers'
              /\ answers'[pendingAnswers[i].questionId] = pendingAnswers[i].answerData
              /\ page' = "taking"
              /\ submitting' = submitting)]_vars

\* C7: while a submitTest call is in flight or after the attempt was finalized,
\* the answer cache does not change and no submitAnswer request is sent.
C7_NoMutationWhileSubmitting ==
    [][(submitInFlight > 0 \/ page = "results")
          => (answers' = answers /\ answerCalls' = answerCalls)]_vars

\* C8: every submission-failed alert is preceded by at least two failed
\* submitTest calls: the first failure is retried before the error is shown.
C8_SubmitRetried == submitAlerts * 2 <= submitFailures

C10_AnsweredCountNonEmpty ==
    answeredCount = Cardinality({q \in DOMAIN answers : NonEmptyPayload(answers[q])})

C12_NullTimeIsInert ==
    (session # Null /\ session.time_remaining = NullTime) =>
        /\ timeRemaining = NullTime
        /\ ~timerOn
        /\ ticks = 0
        /\ expiryCount = 0

C12_Witness ==
    /\ session # Null
    /\ session.time_remaining = NullTime
    /\ answers # EmptyAnswers
    /\ submitSuccesses = 1

\* C13: whenever startTest returned a non-null time_remaining (0 included),
\* the expiry handler eventually runs, unless the attempt is submitted or the
\* page is left first.
C13_NonNullTimeExpires ==
    []((session # Null /\ session.time_remaining # NullTime)
          => <>(expiryCount > 0 \/ submitCalls > 0 \/ page # "taking"))

\* C14: when startTest or getTestQuestions fails, the error is alerted once,
\* the page is left for /dashboard, loading ends, and the attempt never becomes
\* active: no question is shown and no submitAnswer or submitTest is sent.
C14_LoadFailureIsSafe ==
    loadPc = "failed" =>
        /\ loadAlerts = 1
        /\ page = "dashboard"
        /\ ~loading
        /\ ~Rendered
        /\ test = Null
        /\ answerCalls = 0
        /\ pendingAnswers = <<>>
        /\ submitCalls = 0
        /\ submitInFlight = 0

C14_Witness ==
    /\ loadPc = "failed"
    /\ session # Null
    /\ ticks > 0

\* C15: the results page is entered, and getResult is requested, only by the
\* step in which a submitTest call succeeds; a failed or pending submitTest
\* never leads there.
C15_ResultOnlyAfterSubmit ==
    [][((page' = "results" /\ page # "results")
          \/ (resultPc' = "loading" /\ resultPc # "loading"))
         => submitSuccesses' = submitSuccesses + 1]_vars

C15_Witness ==
    /\ page = "results"
    /\ resultPc = "shown"
    /\ submitSuccesses = 1
    /\ submitFailures = 1

\* C16: a failed submitAnswer is retried: the failure of an answer is logged
\* and dropped only after at least two requests were sent for it.
C16_AnswerPersistRetried ==
    [][\A i \in DOMAIN pendingAnswers :
          SubmitAnswerReject(i) => pendingAnswers[i].requests >= 2]_vars

\* C17: an answer call and the completion of its persist, successful or not,
\* leave currentQuestionIndex, submitting and timeRemaining unchanged.
C17_AnswerFrame ==
    [][(answerCalls' # answerCalls \/ pendingAnswers' # pendingAnswers)
         => UNCHANGED <<currentQuestionIndex, submitting, timeRemaining>>]_vars

C17_Witness ==
    /\ answerCalls = 2
    /\ errorsLogged = 1
    /\ answers # EmptyAnswers
    /\ pendingAnswers = <<>>

\* C18: while submitAnswer requests are in flight, next and previous stay
\* available and move the index at once, subject only to clamping.
C18_NavigationNeverBlocks ==
    (Rendered /\ pendingAnswers # <<>>) =>
        /\ currentQuestionIndex < Len(test.questions) - 1
              => ENABLED (handleNext /\ currentQuestionIndex' = currentQuestionIndex + 1)
        /\ currentQuestionIndex > 0
              => ENABLED (handlePrevious /\ currentQuestionIndex' = currentQuestionIndex - 1)

C18_Witness ==
    /\ Rendered
    /\ currentQuestionIndex = 1
    /\ \E i \in DOMAIN pendingAnswers : pendingAnswers[i].questionId = 1

\* C19: handleSubmit runs without a timer expiry (a manual submit) only on the
\* last question; on any other question the submit path runs only by expiry.
C19_ManualSubmitOnLastQuestion ==
    [][((submitCalls' # submitCalls \/ lastConfirm' # NoConfirm)
          /\ expiryCount' = expiryCount)
         => (Rendered /\ currentQuestionIndex = Len(test.questions) - 1)]_vars

C19_Witness ==
    /\ submitCalls = 1
    /\ expiryCount = 0
    /\ test # Null
    /\ Len(test.questions) = MaxQuestions
    /\ currentQuestionIndex = Len(test.questions) - 1

\* the request bodies {question_id, answer_data} of the latest answer of each question
WirePayload == {submitAnswerBody(q, lastCall[q]) : q \in DOMAIN lastCall}

\* the cache a wire payload describes: question_id -> answer_data
FromWire(W) ==
    [q \in {m.question_id : m \in W} |->
        (CHOOSE m \in W : m.question_id = q).answer_data]

\* C20: a fresh cache into which one payload per question was entered, every
\* request having succeeded, returns for every question id the answer_data
\* that went over the wire for it.
C20_RoundTrip ==
    (/\ page = "taking"
     /\ test # Null
     /\ pendingAnswers = <<>>
     /\ errorsLogged = 0
     /\ answerCalls = Len(test.questions)
     /\ DOMAIN lastCall = {test.questions[i] : i \in DOMAIN test.questions})
        => \A q \in DOMAIN lastCall : AnswerProp(q) = FromWire(WirePayload)[q]

C22_ExpiryAfterLoad ==
    [][expiryCount' # expiryCount
         => (loadPc = "done" /\ test # Null /\ timerClosure.test # Null)]_vars

\* C23: logout, from any state of the store, leaves user null, isAuthenticated
\* false and neither access_token nor refresh_token in local storage.
C23_LogoutClears ==
    [][logout =>
         /\ user' = Null
         /\ isAuthenticated' = FALSE
         /\ "access_token" \notin DOMAIN localStorage'
         /\ "refresh_token" \notin DOMAIN localStorage']_vars

C23_Witness ==
    /\ user = Null
    /\ ~isAuthenticated
    /\ localStorage = NoTokens
    /\ authCalls = MaxAuthCalls
    /\ authPending # <<>>

\* C24: in every state of the store isAuthenticated = true implies that an
\* access_token is stored, whatever the order in which requests complete.
C24_AuthenticatedHasToken ==
    isAuthenticated => authService_isAuthenticated(localStorage)

\* C25: in every state of the store user is non-null exactly when
\* isAuthenticated is true.
C25_UserIffAuthenticated == (user # Null) <=> isAuthenticated

\* C26: every way initialize completes (no token stored, getCurrentUser
\* resolved, getCurrentUser rejected) sets isLoading to false; after a rejection
\* user is null, isAuthenticated false and both tokens are removed; and a
\* pending initialize does complete, with isLoading false.
C26_InitializeTerminates ==
    /\ [][(initialize /\ ~authService_isAuthenticated(localStorage)) => ~isLoading']_vars
    /\ [][\A i \in DOMAIN authPending :
            /\ InitializeResolve(i) => ~isLoading'
            /\ InitializeReject(i) =>
                  /\ ~isLoading'
                  /\ user' = Null
                  /\ ~isAuthenticated'
                  /\ localStorage' = NoTokens]_vars
    /\ (\E i \in DOMAIN authPending : authPending[i].op = "initialize") ~> ~isLoading

C26_Witness ==
    /\ ~isLoading
    /\ user = Null
    /\ localStorage = NoTokens
    /\ authCalls = 1
    /\ authPending = <<>>

\* ========================================================== OrderingQuestion
\* The OrderingQuestion component. onAnswer hands the payload to the parent,
\* which later passes it back as the answer prop or, when saving failed, never.

\* saveOrder / onAnswer({ order: itemsToSave.map(item => item.id) })
onAnswerOrder(itemsToSave) ==
    orderingPending' = Append(orderingPending, [order |-> itemsToSave])

handleDragStart(index) ==
    /\ draggedItem' = index
    /\ UNCHANGED <<items, orderingAnswer, orderingPending>>
    /\ UNCHANGED notOrdering

handleDragOver(index) ==
    /\ IF draggedItem = NullIdx \/ draggedItem = index
       THEN UNCHANGED <<items, draggedItem>>
       ELSE LET draggedElement == items[draggedItem + 1]
            IN /\ items' = InsertAt(RemoveAt(items, draggedItem + 1), index, draggedElement)
               /\ draggedItem' = index
    /\ UNCHANGED <<orderingAnswer, orderingPending>>
    /\ UNCHANGED notOrdering

\* the drag ends: saveOrder() with the items of the latest render
handleDragEnd ==
    /\ draggedItem # NullIdx
    /\ Len(orderingPending) < MaxOrderPending
    /\ draggedItem' = NullIdx
    /\ onAnswerOrder(items)
    /\ UNCHANGED <<items, orderingAnswer>>
    /\ UNCHANGED notOrdering

\* handleMoveUp that copies the item up without moving the other one down
handleMoveUp_Overwrite(index) ==
    /\ Len(orderingPending) < MaxOrderPending
    /\ IF index = 0
       THEN UNCHANGED <<items, orderingPending>>
       ELSE LET newItems == [items EXCEPT ![index] = items[index + 1]]
            IN /\ items' = newItems
               /\ onAnswerOrder(newItems)
    /\ UNCHANGED <<draggedItem, orderingAnswer>>
    /\ UNCHANGED notOrdering

handleMoveUp(index) ==
    /\ Len(orderingPending) < MaxOrderPending
    /\ IF index = 0
       THEN UNCHANGED <<items, orderingPending>>
       ELSE LET newItems == [items EXCEPT ![index] = items[index + 1],
                                          ![index + 1] = items[index]]
            IN /\ items' = newItems
               /\ onAnswerOrder(newItems)
    /\ UNCHANGED <<draggedItem, orderingAnswer>>
    /\ UNCHANGED notOrdering

handleMoveDown(index) ==
    /\ Len(orderingPending) < MaxOrderPending
    /\ IF index = Len(items) - 1
       THEN UNCHANGED <<items, orderingPending>>
       ELSE LET newItems == [items EXCEPT ![index + 1] = items[index + 2],
                                          ![index + 2] = items[index + 1]]
            IN /\ items' = newItems
               /\ onAnswerOrder(newItems)
    /\ UNCHANGED <<draggedItem, orderingAnswer>>
    /\ UNCHANGED notOrdering

\* handleReset: a fresh shuffle of the options, shown and reported
OrderingQuestion_handleReset(shuffled) ==
    /\ Len(orderingPending) < MaxOrderPending
    /\ items' = shuffled
    /\ onAnswerOrder(shuffled)
    /\ UNCHANGED <<draggedItem, orderingAnswer>>
    /\ UNCHANGED notOrdering

\* the parent saved payload i and passes it down as answer: the effect runs
OrderingAnswerSaved(i) ==
    /\ orderingAnswer' = orderingPending[i]
    /\ orderingPending' = RemoveAt(orderingPending, i)
    /\ items' = IF orderingAnswer' # orderingAnswer
                THEN OrderingEffect(orderingAnswer', items) ELSE items
    /\ UNCHANGED draggedItem
    /\ UNCHANGED notOrdering

\* the parent failed to save payload i: the answer prop stays as it is
OrderingAnswerDropped(i) ==
    /\ orderingPending' = RemoveAt(orderingPending, i)
    /\ UNCHANGED <<items, draggedItem, orderingAnswer>>
    /\ UNCHANGED notOrdering

OrderingNext ==
    \/ \E index \in 0..(Len(items) - 1) : handleDragStart(index)
    \/ \E index \in 0..(Len(items) - 1) : handleDragOver(index)
    \/ handleDragEnd
    \/ \E index \in 0..(Len(items) - 1) : handleMoveUp(index)
    \/ \E index \in 0..(Len(items) - 1) : handleMoveDown(index)
    \/ \E shuffled \in Shuffles : OrderingQuestion_handleReset(shuffled)
    \/ \E i \in DOMAIN orderingPending : OrderingAnswerSaved(i)
    \/ \E i \in DOMAIN orderingPending : OrderingAnswerDropped(i)

\* the application with an ordering question just shown
OrderingSpecInit == TakingInit /\ AuthStore(NoTokens) /\ OrderingInit /\ MatchingInit /\ EditorInit /\ CreatorLoaded(<<>>)

OrderingSpec == OrderingSpecInit /\ [][OrderingNext]_vars

\* a sequence that holds every option id exactly once
IsPermutation(order) ==
    /\ Len(order) = Len(OrderingOptions)
    /\ \A i \in DOMAIN OrderingOptions : \E j \in DOMAIN order : order[j] = OrderingOptions[i]

\* C27: every payload OrderingQuestion passes to onAnswer, after any sequence
\* of move-up, move-down, drag and reset operations, holds an order that is a
\* permutation of all option ids.
C27_OrderIsPermutation ==
    /\ \A i \in DOMAIN orderingPending : IsPermutation(orderingPending[i].order)
    /\ orderingAnswer # Null => IsPermutation(orderingAnswer.order)
    /\ IsPermutation(items)

C27_Witness ==
    /\ orderingAnswer # Null
    /\ orderingPending # <<>>
    /\ orderingPending[1].order # orderingAnswer.order
    /\ draggedItem # NullIdx
    /\ items # orderingPending[1].order

\* ========================================================== MatchingQuestion
\* The MatchingQuestion component. onAnswer hands the payload to the parent,
\* which later passes it back as the answer prop or, when saving failed, never.

\* Object.keys(newMatches).forEach(key => { if (newMatches[key] === rightId) delete newMatches[key] })
DeleteMatchesOf(m, rightId) == [k \in {x \in DOMAIN m : m[x] # rightId} |-> m[k]]

\* delete newMatches[leftId]
DeleteKey(m, leftId) == [k \in DOMAIN m \ {leftId} |-> m[k]]

\* the effect on [answer]: if (answer?.matches) setMatches(answer.matches)
MatchingEffect(a, m) == IF a # Null THEN a.matches ELSE m

\* onAnswer({ matches: newMatches })
onAnswerMatches(newMatches) ==
    matchingPending' = Append(matchingPending, [matches |-> newMatches])

handleLeftClick(leftId) ==
    /\ selectedLeft' = IF selectedLeft = leftId THEN NoLeft ELSE leftId
    /\ UNCHANGED <<matches, matchingAnswer, matchingPending>>
    /\ UNCHANGED notMatching

\* handleRightClick that keeps the earlier pair of the right item
handleRightClick_KeepsOld(rightId) ==
    /\ Len(matchingPending) < MaxMatchPending
    /\ IF selectedLeft = NoLeft
       THEN UNCHANGED <<matches, selectedLeft, matchingPending>>
       ELSE LET newMatches == Spread(matches, selectedLeft, rightId)
            IN /\ matches' = newMatches
               /\ selectedLeft' = NoLeft
               /\ onAnswerMatches(newMatches)
    /\ UNCHANGED matchingAnswer
    /\ UNCHANGED notMatching

handleRightClick(rightId) ==
    /\ Len(matchingPending) < MaxMatchPending
    /\ IF selectedLeft = NoLeft
       THEN UNCHANGED <<matches, selectedLeft, matchingPending>>
       ELSE LET newMatches == Spread(DeleteMatchesOf(matches, rightId), selectedLeft, rightId)
            IN /\ matches' = newMatches
               /\ selectedLeft' = NoLeft
               /\ onAnswerMatches(newMatches)
    /\ UNCHANGED matchingAnswer
    /\ UNCHANGED notMatching

\* the remove button is shown on a matched left item
handleRemoveMatch(leftId) ==
    /\ Len(matchingPending) < MaxMatchPending
    /\ leftId \in DOMAIN matches
    /\ LET newMatches == DeleteKey(matches, leftId)
       IN /\ matches' = newMatches
          /\ onAnswerMatches(newMatches)
    /\ UNCHANGED <<selectedLeft, matchingAnswer>>
    /\ UNCHANGED notMatching

MatchingQuestion_handleReset ==
    /\ Len(matchingPending) < MaxMatchPending
    /\ matches' = NoMatches
    /\ selectedLeft' = NoLeft
    /\ onAnswerMatches(NoMatches)
    /\ UNCHANGED matchingAnswer
    /\ UNCHANGED notMatching

\* the parent saved payload i and passes it down as answer: the effect runs
MatchingAnswerSaved(i) ==
    /\ matchingAnswer' = matchingPending[i]
    /\ matchingPending' = RemoveAt(matchingPending, i)
    /\ matches' = IF matchingAnswer' # matchingAnswer
                  THEN MatchingEffect(matchingAnswer', matches) ELSE matches
    /\ UNCHANGED selectedLeft
    /\ UNCHANGED notMatching

\* the parent failed to save payload i: the answer prop stays as it is
MatchingAnswerDropped(i) ==
    /\ matchingPending' = RemoveAt(matchingPending, i)
    /\ UNCHANGED <<matches, selectedLeft, matchingAnswer>>
    /\ UNCHANGED notMatching

MatchingNext ==
    \/ \E leftId \in LeftIds : handleLeftClick(leftId)
    \/ \E rightId \in RightIds : handleRightClick(rightId)
    \/ \E leftId \in LeftIds : handleRemoveMatch(leftId)
    \/ MatchingQuestion_handleReset
    \/ \E i \in DOMAIN matchingPending : MatchingAnswerSaved(i)
    \/ \E i \in DOMAIN matchingPending : MatchingAnswerDropped(i)

\* the application with a matching question just shown
MatchingSpecInit == TakingInit /\ AuthStore(NoTokens) /\ OrderingMounted(OrderingOptions) /\ MatchingInit /\ EditorInit /\ CreatorLoaded(<<>>)

MatchingSpec == MatchingSpecInit /\ [][MatchingNext]_vars

\* m maps left ids to right ids and no right id is used twice
InjectivePartialMap(m) ==
    /\ DOMAIN m \subseteq LeftIds
    /\ \A k \in DOMAIN m : m[k] \in RightIds
    /\ \A k1, k2 \in DOMAIN m : m[k1] = m[k2] => k1 = k2

\* C28: starting from an empty matching, matches stays an injective partial
\* map from left ids to right ids; a right-click with no left item selected
\* changes nothing; every payload passed to onAnswer equals the new matches.
C28_MatchesInjective ==
    /\ [](InjectivePartialMap(matches))
    /\ [][\A rightId \in RightIds :
            (handleRightClick(rightId) /\ selectedLeft = NoLeft)
               => UNCHANGED <<matches, selectedLeft, matchingAnswer, matchingPending>>]_vars
    /\ [][Len(matchingPending') > Len(matchingPending)
            => matchingPending'[Len(matchingPending')].matches = matches']_vars

C28_Witness ==
    /\ DOMAIN matches = LeftIds
    /\ matches["left_1"] = "right_2"
    /\ matchingAnswer # Null
    /\ matchingAnswer.matches # matches
    /\ matchingPending # <<>>
    /\ selectedLeft = NoLeft

\* ============================================================ QuestionEditor
\* The QuestionEditor form. points, image_id, metadata and the order numbers
\* are carried along unchanged and left out. onSavePayload is what the latest
\* step passed to onSave, Null if it passed nothing.

\* the options block is rendered for these types
needsOptions == formData.question_type \in {"multiple_choice", "multiple_select", "true_false"}

handleTypeChange(type) ==
    /\ formData' = [formData EXCEPT !.question_type = type,
                                    !.options = initializeOptions(type)]
    /\ onSavePayload' = Null
    /\ UNCHANGED notEditor

\* onChange of the question text
handleQuestionTextChange(text) ==
    /\ formData' = [formData EXCEPT !.question_text = text]
    /\ onSavePayload' = Null
    /\ UNCHANGED notEditor

\* the add button is not shown for true_false
handleAddOption ==
    /\ needsOptions
    /\ formData.question_type # "true_false"
    /\ Len(formData.options) < MaxEditorOptions
    /\ formData' = [formData EXCEPT !.options =
                       Append(@, [option_text |-> "", is_correct |-> FALSE])]
    /\ onSavePayload' = Null
    /\ UNCHANGED notEditor

\* the remove button is shown with more than two options, not for true_false
handleRemoveOption(index) ==
    /\ needsOptions
    /\ formData.question_type # "true_false"
    /\ Len(formData.options) > 2
    /\ formData' = [formData EXCEPT !.options = RemoveAt(@, index + 1)]
    /\ onSavePayload' = Null
    /\ UNCHANGED notEditor

\* handleOptionChange(index, 'option_text', value); the input is disabled for true_false
handleOptionChange(index, value) ==
    /\ needsOptions
    /\ formData.question_type # "true_false"
    /\ formData' = [formData EXCEPT !.options[index + 1].option_text = value]
    /\ onSavePayload' = Null
    /\ UNCHANGED notEditor

handleCorrectToggle(index) ==
    /\ needsOptions
    /\ LET isSingleChoice == formData.question_type = "multiple_choice"
       IN formData' = [formData EXCEPT !.options =
              [i \in DOMAIN @ |->
                 [@[i] EXCEPT !.is_correct =
                     IF isSingleChoice THEN i - 1 = index
                     ELSE IF i - 1 = index THEN ~@ ELSE @]]]
    /\ onSavePayload' = Null
    /\ UNCHANGED notEditor

\* handleSubmit of the editor: validation, then onSave(formData)
QuestionEditor_handleSubmit ==
    /\ onSavePayload' =
          IF Trim(formData.question_text) = "" THEN Null
          ELSE IF needsOptions /\ Len(formData.options) < 2 THEN Null
          ELSE IF needsOptions
                  /\ ~\E i \in DOMAIN formData.options : formData.options[i].is_correct
               THEN Null
          ELSE IF needsOptions
                  /\ ~\A i \in DOMAIN formData.options :
                         Trim(formData.options[i].option_text) # ""
               THEN Null
          ELSE formData
    /\ UNCHANGED formData
    /\ UNCHANGED notEditor

EditorNext ==
    \/ \E type \in QuestionTypes : handleTypeChange(type)
    \/ \E text \in EditorTexts : handleQuestionTextChange(text)
    \/ handleAddOption
    \/ \E index \in 0..(Len(formData.options) - 1) : handleRemoveOption(index)
    \/ \E index \in 0..(Len(formData.options) - 1), value \in EditorTexts :
          handleOptionChange(index, value)
    \/ \E index \in 0..(Len(formData.options) - 1) : handleCorrectToggle(index)
    \/ QuestionEditor_handleSubmit

\* the application with the editor opened on a new question
EditorSpecInit == TakingInit /\ AuthStore(NoTokens) /\ OrderingMounted(OrderingOptions) /\ MatchingInit /\ EditorInit /\ CreatorLoaded(<<>>)

EditorSpec == EditorSpecInit /\ [][EditorNext]_vars

\* the number of options marked correct
CorrectCount(q) == Cardinality({i \in DOMAIN q.options : q.options[i].is_correct})

\* C29: a multiple_choice or true_false question passed to onSave has exactly
\* one option marked correct; no question passed to onSave has a blank text,
\* and no choice-type question passed has fewer than two options or a blank
\* option text.
C29_SavedQuestionValid ==
    onSavePayload # Null =>
        /\ onSavePayload.question_type \in {"multiple_choice", "true_false"}
              => CorrectCount(onSavePayload) = 1
        /\ Trim(onSavePayload.question_text) # ""
        /\ onSavePayload.question_type \in {"multiple_choice", "multiple_select", "true_false"}
              => /\ Len(onSavePayload.options) >= 2
                 /\ \A i \in DOMAIN onSavePayload.options :
                       Trim(onSavePayload.options[i].option_text) # ""

\* =========================================================== TestCreatorPage
\* The questions step of TestCreatorPage in edit mode. A request in flight
\* keeps the questions of the render whose handler sent it.

\* questions.filter(q => q.id !== questionId)
FilterOut(qs, questionId) == SelectSeq(qs, LAMBDA q : q # questionId)

\* the add button of the list, disabled while saving
handleAddQuestion ==
    /\ creatorPage = "creator"
    /\ editingQuestion = NoQuestion
    /\ ~saving
    /\ editingQuestion' = NewQuestion
    /\ UNCHANGED <<questions, saving, creatorPending, publishCalls, creatorOps, creatorPage>>
    /\ UNCHANGED notCreator

\* the edit button of a listed question
handleEditQuestion(question) ==
    /\ creatorPage = "creator"
    /\ editingQuestion = NoQuestion
    /\ editingQuestion' = question
    /\ UNCHANGED <<questions, saving, creatorPending, publishCalls, creatorOps, creatorPage>>
    /\ UNCHANGED notCreator

\* onCancel of the editor, disabled while saving
CancelEdit ==
    /\ creatorPage = "creator"
    /\ editingQuestion # NoQuestion
    /\ ~saving
    /\ editingQuestion' = NoQuestion
    /\ UNCHANGED <<questions, saving, creatorPending, publishCalls, creatorOps, creatorPage>>
    /\ UNCHANGED notCreator

\* handleSaveQuestion up to its await; the editor's save button is disabled while saving
handleSaveQuestion ==
    /\ creatorPage = "creator"
    /\ editingQuestion # NoQuestion
    /\ ~saving
    /\ creatorOps < MaxCreatorOps
    /\ creatorOps' = creatorOps + 1
    /\ saving' = TRUE
    /\ creatorPending' = Append(creatorPending,
          [op |-> IF editingQuestion = NewQuestion THEN "addQuestion" ELSE "updateQuestion",
           id |-> IF editingQuestion = NewQuestion THEN 10 + creatorOps' ELSE editingQuestion,
           questions |-> questions])
    /\ UNCHANGED <<questions, editingQuestion, publishCalls, creatorPage>>
    /\ UNCHANGED notCreator

\* handleDeleteQuestion up to its await; confirmed is the reply to confirm()
handleDeleteQuestion(questionId, confirmed) ==
    /\ creatorPage = "creator"
    /\ editingQuestion = NoQuestion
    /\ creatorOps < MaxCreatorOps
    /\ IF ~confirmed
       THEN UNCHANGED <<saving, creatorPending, creatorOps>>
       ELSE /\ creatorOps' = creatorOps + 1
            /\ saving' = TRUE
            /\ creatorPending' = Append(creatorPending,
                  [op |-> "deleteQuestion", id |-> questionId, questions |-> questions])
    /\ UNCHANGED <<questions, editingQuestion, publishCalls, creatorPage>>
    /\ UNCHANGED notCreator

\* handlePublish that skips the confirmation
handlePublish_NoConfirm(confirmed) ==
    /\ creatorPage = "creator"
    /\ ~saving
    /\ creatorOps < MaxCreatorOps
    /\ IF Len(questions) = 0
       THEN UNCHANGED <<saving, creatorPending, publishCalls, creatorOps>>
       ELSE /\ creatorOps' = creatorOps + 1
            /\ saving' = TRUE
            /\ publishCalls' = publishCalls + 1
            /\ creatorPending' = Append(creatorPending,
                  [op |-> "publishTest", id |-> NoQuestion, questions |-> questions])
    /\ UNCHANGED <<questions, editingQuestion, creatorPage>>
    /\ UNCHANGED notCreator

\* handlePublish up to its await. The button is disabled while saving; it is
\* also disabled for an empty list, a case the handler checks again itself
\* and that is kept here so that the handler's own check is exercised.
handlePublish(confirmed) ==
    /\ creatorPage = "creator"
    /\ ~saving
    /\ creatorOps < MaxCreatorOps
    /\ IF Len(questions) = 0 \/ ~confirmed
       THEN UNCHANGED <<saving, creatorPending, publishCalls, creatorOps>>
       ELSE /\ creatorOps' = creatorOps + 1
            /\ saving' = TRUE
            /\ publishCalls' = publishCalls + 1
            /\ creatorPending' = Append(creatorPending,
                  [op |-> "publishTest", id |-> NoQuestion, questions |-> questions])
    /\ UNCHANGED <<questions, editingQuestion, creatorPage>>
    /\ UNCHANGED notCreator

\* request i resolved: the rest of its handler runs, then finally setSaving(false)
CreatorResolve(i) ==
    LET r == creatorPending[i]
        mounted == creatorPage = "creator"
    IN /\ creatorPending' = RemoveAt(creatorPending, i)
       /\ questions' =
             IF ~mounted THEN questions
             ELSE IF r.op = "addQuestion" THEN Append(r.questions, r.id)
             ELSE IF r.op = "updateQuestion" THEN r.questions
             ELSE IF r.op = "deleteQuestion" THEN FilterOut(r.questions, r.id)
             ELSE questions
       /\ editingQuestion' =
             IF mounted /\ r.op \in {"addQuestion", "updateQuestion"}
             THEN NoQuestion ELSE editingQuestion
       /\ creatorPage' = IF mounted /\ r.op = "publishTest" THEN "tests" ELSE creatorPage
       /\ saving' = IF mounted THEN FALSE ELSE saving
       /\ UNCHANGED <<publishCalls, creatorOps>>
       /\ UNCHANGED notCreator

\* request i rejected: alert, then finally setSaving(false)
CreatorReject(i) ==
    /\ creatorPending' = RemoveAt(creatorPending, i)
    /\ saving' = IF creatorPage = "creator" THEN FALSE ELSE saving
    /\ UNCHANGED <<questions, editingQuestion, publishCalls, creatorOps, creatorPage>>
    /\ UNCHANGED notCreator

CreatorNext ==
    \/ handleAddQuestion
    \/ \E i \in DOMAIN questions : handleEditQuestion(questions[i])
    \/ CancelEdit
    \/ handleSaveQuestion
    \/ \E i \in DOMAIN questions, confirmed \in BOOLEAN :
          handleDeleteQuestion(questions[i], confirmed)
    \/ \E confirmed \in BOOLEAN : handlePublish(confirmed)
    \/ \E i \in DOMAIN creatorPending : CreatorResolve(i)
    \/ \E i \in DOMAIN creatorPending : CreatorReject(i)

\* the application with the creator page on its questions step
CreatorSpecInit == TakingInit /\ AuthStore(NoTokens) /\ OrderingMounted(OrderingOptions) /\ MatchingInit /\ EditorInit /\ CreatorInit

CreatorSpec == CreatorSpecInit /\ [][CreatorNext]_vars

\* C30: publishTest is called only by a handlePublish that saw a non-empty
\* question list and a confirming user; with no questions handlePublish sends
\* nothing and changes no state, whatever adds, edits and deletes came before.
C30_PublishNeedsQuestions ==
    /\ [][publishCalls' # publishCalls =>
            /\ Len(questions) > 0
            /\ handlePublish(TRUE)
            /\ ~handlePublish(FALSE)]_vars
    /\ [][((\E confirmed \in BOOLEAN : handlePublish(confirmed)) /\ Len(questions) = 0)
            => UNCHANGED <<questions, editingQuestion, saving, creatorPending,
                           publishCalls, creatorOps, creatorPage>>]_vars

C30_Witness ==
    /\ publishCalls = 1
    /\ creatorPage = "tests"
    /\ creatorOps = MaxCreatorOps
    /\ Len(questions) = 1
    /\ creatorPending # <<>>

====
